---- MODULE Spec2Model ----
(***************************************************************************)
(* A model of SpectroscoPy/Utilities.py: ConvertFrequencyUnits,            *)
(* GroupForPeakTable and EigenvectorsToEigendisplacements.                 *)
(*                                                                         *)
(* The functions are pure, so each one is an operator computed in the      *)
(* order of its source, and each has a specification whose initial states  *)
(* are the calls (the arguments) and whose actions run the call.           *)
(* Real numbers are exact rationals; an exception is a "raised" outcome    *)
(* carrying its kind and the value its message names.                      *)
(***************************************************************************)
EXTENDS Integers, Sequences, FiniteSets, TLC

VARIABLES pc, args, ret, back

vars == <<pc, args, ret, back>>

(***************************************************************************)
(* Bounds of the model.                                                    *)
(***************************************************************************)
\* ConvertFrequencyUnits: longest frequency list.
MaxFreqs == 2
\* GroupForPeakTable, validation: largest number of modes N.
MaxModesChecked == 2
\* GroupForPeakTable, reduction: largest number of modes N.
MaxModes == 3
\* GroupForPeakTable: largest number of irrep groups.
MaxGroups == 3
\* EigenvectorsToEigendisplacements: largest number of mode vectors, and of
\* displacements in one mode vector.
MaxEigModes == 3
MaxAtoms == 2

(***************************************************************************)
(* Outcomes of a call, and Python's None.                                  *)
(***************************************************************************)
None == [n \in {0} |-> 0]

Return(value) ==
    [status |-> "returned", kind |-> "", detail |-> <<>>, value |-> value]

Raise(kind, detail) ==
    [status |-> "raised", kind |-> kind, detail |-> detail, value |-> <<>>]

NotCalled == [status |-> "none", kind |-> "", detail |-> <<>>, value |-> <<>>]

(***************************************************************************)
(* Exact arithmetic on rationals num/den, den > 0, in lowest terms.        *)
(* NaN is what np.average gives for an empty list (0.0 / 0); it has        *)
(* denominator 0 and so propagates through the arithmetic.                 *)
(***************************************************************************)
NaN == [num |-> 0, den |-> 0]

Abs(n) == IF n < 0 THEN -n ELSE n

RECURSIVE GCD(_, _)
GCD(a, b) == IF b = 0 THEN a ELSE GCD(b, a % b)

Rat(n, d) ==
    IF d = 0 THEN NaN
    ELSE LET g == GCD(Abs(n), Abs(d))
             s == IF d < 0 THEN -1 ELSE 1
         IN  [num |-> s * (n \div g), den |-> s * (d \div g)]

RatAdd(a, b) == Rat(a.num * b.den + b.num * a.den, a.den * b.den)

RatMul(a, b) == Rat(a.num * b.num, a.den * b.den)

\* a / b, for b # 0.
RatDiv(a, b) == Rat(a.num * b.den, a.den * b.num)

RatOne == Rat(1, 1)

RatZero == Rat(0, 1)

RECURSIVE SeqSum(_)
SeqSum(s) == IF s = <<>> THEN RatZero ELSE RatAdd(Head(s), SeqSum(Tail(s)))

(***************************************************************************)
(* Strings as sequences of characters, and str.lower().                    *)
(***************************************************************************)
UpperToLower ==
    ("T" :> "t") @@ ("H" :> "h") @@ ("Z" :> "z") @@ ("I" :> "i") @@
    ("N" :> "n") @@ ("V" :> "v") @@ ("C" :> "c") @@ ("M" :> "m") @@
    ("E" :> "e") @@ ("U" :> "u") @@ ("F" :> "f") @@ ("O" :> "o")

LowerChar(c) == IF c \in DOMAIN UpperToLower THEN UpperToLower[c] ELSE c

Lower(s) == [i \in DOMAIN s |-> LowerChar(s[i])]

thz == <<"t", "h", "z">>

inv_cm == <<"i", "n", "v", "_", "c", "m">>

mev == <<"m", "e", "v">>

um == <<"u", "m">>

(***************************************************************************)
(* Constants.THzToInvCm, Constants.THzToMeV, Constants.THzToInvUm: the     *)
(* sibling module's conversion constants, as nearby rationals.             *)
(***************************************************************************)
THzToInvCm == Rat(100, 3)

THzToMeV == Rat(33, 8)

THzToInvUm == Rat(1, 300)

(***************************************************************************)
(* ConvertFrequencyUnits                                                   *)
(***************************************************************************)
\* [frequency / c for frequency in frequencies]
DivideAll(frequencies, c) ==
    Return([i \in DOMAIN frequencies |-> RatDiv(frequencies[i], c)])

\* [frequency * c for frequency in frequencies]
MultiplyAll(frequencies, c) ==
    Return([i \in DOMAIN frequencies |-> RatMul(frequencies[i], c)])

\* [1.0 / (frequency * c) for frequency in frequencies]; 1.0 / 0.0 raises.
ReciprocalAll(frequencies, c) ==
    IF \E i \in DOMAIN frequencies : RatMul(frequencies[i], c).num = 0
    THEN Raise("ZeroDivisionError", <<>>)
    ELSE Return([i \in DOMAIN frequencies |->
                    RatDiv(RatOne, RatMul(frequencies[i], c))])

\* A to-pivot stage that takes an unknown source unit for THz.
ToTHzLenient(frequencies, unitsFrom) ==
    IF unitsFrom = inv_cm THEN DivideAll(frequencies, THzToInvCm)
    ELSE IF unitsFrom = mev THEN DivideAll(frequencies, THzToMeV)
    ELSE IF unitsFrom = um THEN ReciprocalAll(frequencies, THzToInvUm)
    ELSE Return(frequencies)

\* First convert frequencies to THz...
ToTHz(frequencies, unitsFrom) ==
    IF unitsFrom # thz
    THEN IF unitsFrom = inv_cm THEN DivideAll(frequencies, THzToInvCm)
         ELSE IF unitsFrom = mev THEN DivideAll(frequencies, THzToMeV)
         ELSE IF unitsFrom = um THEN ReciprocalAll(frequencies, THzToInvUm)
         ELSE Raise("UnsupportedUnits", unitsFrom)
    ELSE Return(frequencies)

\* A from-pivot stage that divides by the meV constant instead of multiplying.
FromTHzDividing(frequencies, unitsTo) ==
    IF unitsTo # thz
    THEN IF unitsTo = inv_cm THEN MultiplyAll(frequencies, THzToInvCm)
         ELSE IF unitsTo = mev THEN DivideAll(frequencies, THzToMeV)
         ELSE IF unitsTo = um THEN ReciprocalAll(frequencies, THzToInvUm)
         ELSE Raise("UnsupportedUnits", unitsTo)
    ELSE Return(frequencies)

\* ... and now convert to the desired unit.
FromTHz(frequencies, unitsTo) ==
    IF unitsTo # thz
    THEN IF unitsTo = inv_cm THEN MultiplyAll(frequencies, THzToInvCm)
         ELSE IF unitsTo = mev THEN MultiplyAll(frequencies, THzToMeV)
         ELSE IF unitsTo = um THEN ReciprocalAll(frequencies, THzToInvUm)
         ELSE Raise("UnsupportedUnits", unitsTo)
    ELSE Return(frequencies)

\* The pipeline after the short-circuit, on the lower-cased keys.
ConvertPipeline(frequencies, unitsFrom, unitsTo) ==
    LET inTHz == ToTHz(frequencies, unitsFrom)
    IN  IF inTHz.status = "raised" THEN inTHz
        ELSE FromTHz(inTHz.value, unitsTo)

SameUnits(unitsFrom, unitsTo) == unitsFrom = unitsTo

\* A conversion that compares and dispatches on the keys as given.
ConvertCaseSensitive(frequencies, unitsFrom, unitsTo) ==
    IF SameUnits(unitsFrom, unitsTo)
    THEN Return(frequencies)
    ELSE ConvertPipeline(frequencies, unitsFrom, unitsTo)

ConvertFrequencyUnits(frequencies, unitsFrom, unitsTo) ==
    LET lowerFrom == Lower(unitsFrom)
        lowerTo == Lower(unitsTo)
    IN  IF SameUnits(lowerFrom, lowerTo)
        THEN Return(frequencies)
        ELSE ConvertPipeline(frequencies, lowerFrom, lowerTo)

(***************************************************************************)
(* The calls of ConvertFrequencyUnits: unit keys in several cases, and     *)
(* lists of non-negative frequencies.                                      *)
(***************************************************************************)
UnitKeys ==
    { thz, <<"T", "H", "z">>,
      inv_cm, <<"I", "n", "v", "_", "C", "m">>,
      mev, <<"M", "E", "V">>,
      um, <<"U", "m">>,
      <<"f", "o", "o">>, <<"F", "o", "o">>, <<"h", "z">> }

SupportedUnits == {thz, inv_cm, mev, um}

FrequencyValues == {Rat(0, 1), Rat(1, 2), Rat(1, 1), Rat(3, 1)}

FrequencyLists == UNION {[1..n -> FrequencyValues] : n \in 0..MaxFreqs}

Positive(frequencies) == \A i \in DOMAIN frequencies : frequencies[i].num > 0

InitConvert ==
    /\ pc = "call"
    /\ args \in [frequencies : FrequencyLists,
                 unitsFrom : UnitKeys,
                 unitsTo : UnitKeys]
    /\ ret = NotCalled
    /\ back = NotCalled

\* ConvertFrequencyUnits(frequencies, unitsFrom, unitsTo)
ConvertCall ==
    /\ pc = "call"
    /\ ret' = ConvertFrequencyUnits(args.frequencies, args.unitsFrom, args.unitsTo)
    /\ pc' = "returned"
    /\ UNCHANGED <<args, back>>

\* ConvertFrequencyUnits(result, unitsTo, unitsFrom): the conversion back.
ConvertBackCall ==
    /\ pc = "returned"
    /\ ret.status = "returned"
    /\ back' = ConvertFrequencyUnits(ret.value, args.unitsTo, args.unitsFrom)
    /\ pc' = "back"
    /\ UNCHANGED <<args, ret>>

NextConvert == ConvertCall \/ ConvertBackCall

SpecConvert == InitConvert /\ [][NextConvert]_vars

(***************************************************************************)
(* GroupForPeakTable                                                       *)
(***************************************************************************)
\* list[index], Python's 0-based indexing; a negative index counts from the end.
At(list, index) ==
    IF index < 0 THEN list[Len(list) + index + 1] ELSE list[index + 1]

\* The band indices of all groups, in the order the nested loops visit them.
RECURSIVE BandIndicesInOrder(_)
BandIndicesInOrder(irRepData) ==
    IF irRepData = <<>> THEN <<>>
    ELSE Head(irRepData)[2] \o BandIndicesInOrder(Tail(irRepData))

\* Checking loops that never add the index to includedIndices.
RECURSIVE CheckBandIndicesForgetful(_, _, _)
CheckBandIndicesForgetful(indices, includedIndices, numModes) ==
    IF indices = <<>> THEN Return(includedIndices \cup {indices[k] : k \in DOMAIN indices})
    ELSE LET index == Head(indices)
         IN  IF index \in includedIndices
             THEN Raise("MultipleGroups", <<index>>)
             ELSE IF index < 1 \/ index > numModes
             THEN Raise("OutOfBounds", <<index, numModes>>)
             ELSE LET rest == CheckBandIndicesForgetful(Tail(indices), includedIndices, numModes)
                  IN  IF rest.status = "raised" THEN rest
                      ELSE Return(rest.value \cup {index})

\* Checking loops whose range check has no lower bound.
RECURSIVE CheckBandIndicesNoLowerBound(_, _, _)
CheckBandIndicesNoLowerBound(indices, includedIndices, numModes) ==
    IF indices = <<>> THEN Return(includedIndices)
    ELSE LET index == Head(indices)
         IN  IF index \in includedIndices
             THEN Raise("MultipleGroups", <<index>>)
             ELSE IF index > numModes
             THEN Raise("OutOfBounds", <<index, numModes>>)
             ELSE CheckBandIndicesNoLowerBound(Tail(indices),
                                               includedIndices \cup {index}, numModes)

\* The body of the checking loops, over the indices still to visit: returns
\* includedIndices, or raises at the first index that fails a check.
RECURSIVE CheckBandIndices(_, _, _)
CheckBandIndices(indices, includedIndices, numModes) ==
    IF indices = <<>> THEN Return(includedIndices)
    ELSE LET index == Head(indices)
         IN  IF index \in includedIndices
             THEN Raise("MultipleGroups", <<index>>)
             ELSE IF index < 1 \/ index > numModes
             THEN Raise("OutOfBounds", <<index, numModes>>)
             ELSE CheckBandIndices(Tail(indices), includedIndices \cup {index}, numModes)

\* np.average(values)
Average(values) ==
    IF values = <<>> THEN NaN
    ELSE RatDiv(SeqSum(values), Rat(Len(values), 1))

\* np.sum(values)
Sum(values) == SeqSum(values)

\* [list[index - 1] for index in bandIndices]
Members(list, bandIndices) ==
    [k \in DOMAIN bandIndices |-> At(list, bandIndices[k] - 1)]

\* A group value that sums the members where the source averages them.
GroupAverageSummed(list, bandIndices) ==
    IF Len(bandIndices) = 1
    THEN At(list, bandIndices[1] - 1)
    ELSE Sum(Members(list, bandIndices))

\* The frequency (and the linewidth) appended for one group.
GroupAverage(list, bandIndices) ==
    IF Len(bandIndices) = 1
    THEN At(list, bandIndices[1] - 1)
    ELSE Average(Members(list, bandIndices))

\* A group intensity that averages the members where the source sums them.
GroupIntensityAveraged(intensities, bandIndices) ==
    IF Len(bandIndices) = 1
    THEN At(intensities, bandIndices[1] - 1)
    ELSE Average(Members(intensities, bandIndices))

\* The intensity appended for one group.
GroupIntensity(intensities, bandIndices) ==
    IF Len(bandIndices) = 1
    THEN At(intensities, bandIndices[1] - 1)
    ELSE Sum(Members(intensities, bandIndices))

\* A reduction that returns the symbols sorted by their first band index.
ReduceSymbolsByMode(frequencies, intensities, irRepData, linewidths) ==
    LET M == Len(irRepData)
        First(g) == IF irRepData[g][2] = <<>> THEN 0 ELSE irRepData[g][2][1]
        Rank(g) == Cardinality({h \in 1..M : First(h) < First(g) \/ (First(h) = First(g) /\ h <= g)})
        GroupAt(r) == CHOOSE g \in 1..M : Rank(g) = r
    IN  << [g \in DOMAIN irRepData |-> GroupAverage(frequencies, irRepData[g][2])],
           [g \in DOMAIN irRepData |-> GroupIntensity(intensities, irRepData[g][2])],
           [r \in DOMAIN irRepData |-> irRepData[GroupAt(r)][1]],
           IF linewidths # None
           THEN [g \in DOMAIN irRepData |-> GroupAverage(linewidths, irRepData[g][2])]
           ELSE None >>

\* The reduction loop and the returned tuple.
Reduce(frequencies, intensities, irRepData, linewidths) ==
    << [g \in DOMAIN irRepData |-> GroupAverage(frequencies, irRepData[g][2])],
       [g \in DOMAIN irRepData |-> GroupIntensity(intensities, irRepData[g][2])],
       [g \in DOMAIN irRepData |-> irRepData[g][1]],
       IF linewidths # None
       THEN [g \in DOMAIN irRepData |-> GroupAverage(linewidths, irRepData[g][2])]
       ELSE None >>

\* A grouping that never compares the number of included indices with N.
GroupForPeakTableUncounted(frequencies, intensities, irRepData, linewidths) ==
    LET numModes == Len(frequencies)
    IN  IF Len(intensities) # numModes
        THEN Raise("InconsistentLengths", <<>>)
        ELSE IF linewidths # None /\ Len(linewidths) # numModes
        THEN Raise("LinewidthsLength", <<>>)
        ELSE LET checked == CheckBandIndices(BandIndicesInOrder(irRepData), {}, numModes)
             IN  IF checked.status = "raised" THEN checked
                 ELSE Return(Reduce(frequencies, intensities, irRepData, linewidths))

GroupForPeakTable(frequencies, intensities, irRepData, linewidths) ==
    LET numModes == Len(frequencies)
    IN  IF Len(intensities) # numModes
        THEN Raise("InconsistentLengths", <<>>)
        ELSE IF linewidths # None /\ Len(linewidths) # numModes
        THEN Raise("LinewidthsLength", <<>>)
        ELSE LET checked == CheckBandIndices(BandIndicesInOrder(irRepData), {}, numModes)
             IN  IF checked.status = "raised" THEN checked
                 ELSE IF Cardinality(checked.value) # Len(frequencies)
                 THEN Raise("BandCount", <<numModes>>)
                 ELSE Return(Reduce(frequencies, intensities, irRepData, linewidths))

(***************************************************************************)
(* The calls of GroupForPeakTable.                                         *)
(***************************************************************************)
SeqsUpTo(S, n) == UNION {[1..k -> S] : k \in 0..n}

\* Sequences of at most maxGroups index lists over S, of total length at
\* most budget.
RECURSIVE Groupings(_, _, _)
Groupings(S, maxGroups, budget) ==
    IF maxGroups = 0 THEN {<<>>}
    ELSE {<<>>} \cup
         UNION {{<<b>> \o rest : rest \in Groupings(S, maxGroups - 1, budget - Len(b))} :
                b \in SeqsUpTo(S, budget)}

SymbolOf(k) == IF k % 3 = 1 THEN "A" ELSE IF k % 3 = 2 THEN "B" ELSE "E"

\* The irrep symbols of m groups: in the order A, B, E, ... or its reverse.
Labelings(m) == {[g \in 1..m |-> SymbolOf(g)], [g \in 1..m |-> SymbolOf(m + 1 - g)]}

IrRepData(labels, grouping) == [g \in DOMAIN grouping |-> <<labels[g], grouping[g]>>]

RECURSIVE Pow2(_)
Pow2(i) == IF i = 0 THEN 1 ELSE 2 * Pow2(i - 1)

\* Lists of n values: 1, 2, 4, ... or 1, 2, 3, ... or 3/2, 5/2, 7/2, ...
ValueLists(n) ==
    {[i \in 1..n |-> Rat(Pow2(i - 1), 1)],
     [i \in 1..n |-> Rat(i, 1)],
     [i \in 1..n |-> Rat(2 * i + 1, 2)]}

\* Validation: any lengths around N, indices from 0 to N + 1, up to N + 1
\* indices in all.
LengthsAround(n) == {m \in {n - 1, n, n + 1} : m >= 0}

GroupArgs(frequencies, intensities, irRepData, linewidths) ==
    [frequencies |-> frequencies, intensities |-> intensities,
     irRepData |-> irRepData, linewidths |-> linewidths]

InitGroupCheck ==
    /\ pc = "call"
    /\ \E n \in 0..MaxModesChecked :
       \E m \in LengthsAround(n), grouping \in Groupings(0..(n + 1), MaxGroups, n + 1) :
       \E lw \in {None} \cup {[i \in 1..k |-> Rat(2 * i + 1, 2)] : k \in LengthsAround(n)} :
          args = GroupArgs([i \in 1..n |-> Rat(Pow2(i - 1), 1)],
                           [i \in 1..m |-> Rat(i, 1)],
                           IrRepData([g \in DOMAIN grouping |-> SymbolOf(g)], grouping),
                           lw)
    /\ ret = NotCalled
    /\ back = NotCalled

\* Reduction: consistent lengths, indices from 1 to N, up to N indices in all.
InitGroup ==
    /\ pc = "call"
    /\ \E n \in 0..MaxModes :
       \E grouping \in Groupings(1..n, MaxGroups, n) :
       \E fs \in ValueLists(n), is \in ValueLists(n), lw \in {None} \cup ValueLists(n) :
       \E labels \in Labelings(Len(grouping)) :
          args = GroupArgs(fs, is, IrRepData(labels, grouping), lw)
    /\ ret = NotCalled
    /\ back = NotCalled

\* GroupForPeakTable(frequencies, intensities, irRepData, linewidths)
GroupCall ==
    /\ pc = "call"
    /\ ret' = GroupForPeakTable(args.frequencies, args.intensities,
                                args.irRepData, args.linewidths)
    /\ pc' = "returned"
    /\ UNCHANGED <<args, back>>

NextGroup == GroupCall

SpecGroupCheck == InitGroupCheck /\ [][NextGroup]_vars

SpecGroup == InitGroup /\ [][NextGroup]_vars

(***************************************************************************)
(* EigenvectorsToEigendisplacements                                        *)
(***************************************************************************)
\* np.sqrt(mass), kept symbolic, and np.divide(component, sqrtMass).
Sqrt(mass) == [sqrt |-> mass]

Divide(component, sqrtMass) == [over |-> component, by |-> sqrtMass]

\* eigendisplacements[i, j, :] = np.divide(eigenvector[j], sqrtMasses[j]):
\* eigenvector[j] must exist, and its quotient must broadcast to 3 components.
Cell(eigenvectors, sqrtMasses, i, j) ==
    LET eigenvector == eigenvectors[i]
    IN  IF j > Len(eigenvector) THEN Raise("IndexError", <<i, j>>)
        ELSE LET displacement == eigenvector[j]
             IN  IF Len(displacement) = 3
                 THEN Return([c \in 1..3 |-> Divide(displacement[c], sqrtMasses[j])])
                 ELSE IF Len(displacement) = 1
                 THEN Return([c \in 1..3 |-> Divide(displacement[1], sqrtMasses[j])])
                 ELSE Raise("ValueError", <<i, j>>)

\* The two loops: the first cell (i ascending, then j) that raises ends the
\* call; otherwise the filled array is returned.
FillEigendisplacements(eigenvectors, sqrtMasses, numModes, numAtoms) ==
    LET cells == (1..numModes) \X (1..numAtoms)
        Before(a, b) == a[1] < b[1] \/ (a[1] = b[1] /\ a[2] < b[2])
        failing == {ij \in cells : Cell(eigenvectors, sqrtMasses, ij[1], ij[2]).status = "raised"}
    IN  IF failing = {}
        THEN Return([i \in 1..numModes |->
                        [j \in 1..numAtoms |-> Cell(eigenvectors, sqrtMasses, i, j).value]])
        ELSE LET first == CHOOSE ij \in failing : \A other \in failing \ {ij} : Before(ij, other)
             IN  Cell(eigenvectors, sqrtMasses, first[1], first[2])

EigenvectorsToEigendisplacements(eigenvectors, atomicMasses) ==
    IF eigenvectors = <<>> THEN Raise("IndexError", <<>>)
    ELSE IF eigenvectors[1] = <<>> THEN Raise("IndexError", <<>>)
    ELSE LET numModes == Len(eigenvectors)
             numAtoms == Len(eigenvectors[1])
             eigDim3 == Len(eigenvectors[1][1])
         IN  IF numModes # 3 * numAtoms \/ eigDim3 # 3
             THEN Raise("Shape", <<>>)
             ELSE LET massesDim1 == Len(atomicMasses)
                  IN  IF massesDim1 # numAtoms
                      THEN Raise("MassCount", <<>>)
                      ELSE FillEigendisplacements(
                               eigenvectors,
                               [j \in DOMAIN atomicMasses |-> Sqrt(atomicMasses[j])],
                               numModes, numAtoms)

(***************************************************************************)
(* The calls of EigenvectorsToEigendisplacements: up to MaxEigModes mode   *)
(* vectors of up to MaxAtoms displacements of 1 to 4 components, and up to *)
(* MaxAtoms positive masses.                                               *)
(***************************************************************************)
Displacements == {<<2>>, <<2, 0>>, <<2, 0, 0>>, <<0, 1, 2>>, <<2, 0, 0, 1>>}

ModeVectors == SeqsUpTo(Displacements, MaxAtoms)

MassLists == SeqsUpTo({4}, MaxAtoms)

InitEigen ==
    /\ pc = "call"
    /\ \E n \in 0..MaxEigModes :
       \E eigenvectors \in [1..n -> ModeVectors], atomicMasses \in MassLists :
          args = [eigenvectors |-> eigenvectors, atomicMasses |-> atomicMasses]
    /\ ret = NotCalled
    /\ back = NotCalled

\* EigenvectorsToEigendisplacements(eigenvectors, atomicMasses)
EigenCall ==
    /\ pc = "call"
    /\ ret' = EigenvectorsToEigendisplacements(args.eigenvectors, args.atomicMasses)
    /\ pc' = "returned"
    /\ UNCHANGED <<args, back>>

NextEigen == EigenCall

SpecEigen == InitEigen /\ [][NextEigen]_vars

(***************************************************************************)
(* Claims about ConvertFrequencyUnits, under SpecConvert.                  *)
(***************************************************************************)
KeyFrom == Lower(args.unitsFrom)

KeyTo == Lower(args.unitsTo)

Called == pc \in {"returned", "back"}

SomeKeyUnsupported == KeyFrom \notin SupportedUnits \/ KeyTo \notin SupportedUnits

HasZero(frequencies) == \E i \in DOMAIN frequencies : frequencies[i].num = 0

\* C3, as stated: whenever the lower-cased source or target key is not one
\* of thz, inv_cm, mev, um, the call raises the unsupported-units error
\* naming an offending key and returns no value, for every pair of keys.
C3_UnsupportedAlwaysFails ==
    (Called /\ SomeKeyUnsupported) =>
        /\ ret.status = "raised"
        /\ ret.kind = "UnsupportedUnits"
        /\ ret.detail \in {KeyFrom, KeyTo} \ SupportedUnits

\* C3, amended: whenever a lower-cased key is unsupported and the two
\* lower-cased keys differ, the call returns no value; it raises the
\* unsupported-units error naming the first offending key in pipeline order
\* (the source before the target), unless the source is um and a frequency
\* is zero, where the to-THz stage raises a division by zero before the
\* target key is looked at. When the two lower-cased keys are identical the
\* call returns its input unchanged, supported or not.
C3_UnsupportedFailsUnlessSame ==
    (Called /\ SomeKeyUnsupported) =>
        IF KeyFrom = KeyTo
        THEN ret = Return(args.frequencies)
        ELSE /\ ret.status = "raised"
             /\ IF KeyFrom \notin SupportedUnits
                THEN ret.kind = "UnsupportedUnits" /\ ret.detail = KeyFrom
                ELSE IF KeyFrom = um /\ HasZero(args.frequencies)
                THEN ret.kind = "ZeroDivisionError"
                ELSE ret.kind = "UnsupportedUnits" /\ ret.detail = KeyTo

\* C3, its case: both keys unsupported and different, and the source named.
C3_Witness ==
    /\ pc = "returned"
    /\ KeyFrom \notin SupportedUnits
    /\ KeyTo \notin SupportedUnits
    /\ KeyFrom # KeyTo
    /\ args.unitsFrom # KeyFrom
    /\ ret = Raise("UnsupportedUnits", KeyFrom)

\* C7: for keys that are equal after lower-casing (so also keys differing
\* only in case), the call returns the input values unchanged.
C7_IdentityConversion ==
    (Called /\ KeyFrom = KeyTo) => ret = Return(args.frequencies)

\* C7, its case: keys differing only in case, um with a zero frequency,
\* where the pipeline would have divided by zero.
C7_Witness ==
    /\ pc = "returned"
    /\ args.unitsFrom # args.unitsTo
    /\ KeyFrom = um
    /\ KeyTo = um
    /\ HasZero(args.frequencies)
    /\ ret = Return(args.frequencies)

\* C8: for every pair of supported units A, B and positive values, the
\* conversion A -> B returns, and converting its result back B -> A gives
\* the original values (exact arithmetic).
C8_RoundTrip ==
    (/\ Called
     /\ KeyFrom \in SupportedUnits
     /\ KeyTo \in SupportedUnits
     /\ Positive(args.frequencies)) =>
        /\ ret.status = "returned"
        /\ pc = "back" => back = Return(args.frequencies)

\* C8, its case: um -> mev -> um, through the reciprocal formula both ways.
C8_Witness ==
    /\ pc = "back"
    /\ KeyFrom = um
    /\ KeyTo = mev
    /\ args.frequencies # <<>>
    /\ Positive(args.frequencies)
    /\ ret.value # args.frequencies
    /\ back = Return(args.frequencies)

(***************************************************************************)
(* Claims about GroupForPeakTable.                                         *)
(***************************************************************************)
NumModes == Len(args.frequencies)

NumGroups == Len(args.irRepData)

BandIndicesOf(g) == args.irRepData[g][2]

\* Where band index i occurs: the (group, position) pairs.
Occurrences(i) ==
    {gk \in UNION {{<<g, k>> : k \in DOMAIN BandIndicesOf(g)} : g \in 1..NumGroups} :
        BandIndicesOf(gk[1])[gk[2]] = i}

ReferencedIndices ==
    UNION {{BandIndicesOf(g)[k] : k \in DOMAIN BandIndicesOf(g)} : g \in 1..NumGroups}

LengthsConsistent ==
    /\ Len(args.intensities) = NumModes
    /\ args.linewidths # None => Len(args.linewidths) = NumModes

GroupReturned == pc = "returned" /\ ret.status = "returned"

\* C1 (SpecGroupCheck): whenever the call returns, every index of 1..N
\* occurs exactly once over all groups' band indices, and no index outside
\* 1..N occurs.
C1_ReturnsOnlyForPartition ==
    GroupReturned =>
        /\ \A i \in 1..NumModes : Cardinality(Occurrences(i)) = 1
        /\ ReferencedIndices \subseteq 1..NumModes

\* C1, its case: a call that returns for two modes given in two groups, the
\* second mode first.
C1_Witness ==
    /\ GroupReturned
    /\ NumModes = 2
    /\ NumGroups = 2
    /\ BandIndicesOf(1) = <<2>>
    /\ BandIndicesOf(2) = <<1>>

\* The indices in the order the loops visit them, and the first position
\* holding an index seen before.
Visited == BandIndicesInOrder(args.irRepData)

Repeats(p) == \E q \in 1..(p - 1) : Visited[q] = Visited[p]

SomeRepeat == \E p \in DOMAIN Visited : Repeats(p)

FirstRepeat == CHOOSE p \in DOMAIN Visited : Repeats(p) /\ \A q \in 1..(p - 1) : ~Repeats(q)

OutOfRange(p) == Visited[p] < 1 \/ Visited[p] > NumModes

FirstOutOfRange ==
    CHOOSE p \in DOMAIN Visited : OutOfRange(p) /\ \A q \in 1..(p - 1) : ~OutOfRange(q)

InMoreThanOneGroup(i) == Cardinality({gk[1] : gk \in Occurrences(i)}) > 1

\* C4, as stated (SpecGroupCheck): with consistent lengths, whenever some
\* band index is in more than one group, the call raises the
\* duplicate-index error identifying such an index.
C4_DuplicateAlwaysReported ==
    (/\ pc = "returned"
     /\ LengthsConsistent
     /\ \E i \in ReferencedIndices : InMoreThanOneGroup(i)) =>
        /\ ret.status = "raised"
        /\ ret.kind = "MultipleGroups"
        /\ \E i \in ReferencedIndices : InMoreThanOneGroup(i) /\ ret.detail = <<i>>

\* C4, amended (SpecGroupCheck): with consistent lengths, whenever some band
\* index occurs more than once (in one group or in several), the call
\* raises, and never the coverage error: it raises the duplicate-index error
\* naming the first index met a second time in visiting order, unless an
\* out-of-range index is visited before that, in which case it raises the
\* out-of-bounds error naming that earlier index.
C4_FirstFailingIndexReported ==
    (pc = "returned" /\ LengthsConsistent /\ SomeRepeat) =>
        IF \A q \in 1..(FirstRepeat - 1) : ~OutOfRange(q)
        THEN ret = Raise("MultipleGroups", <<Visited[FirstRepeat]>>)
        ELSE ret = Raise("OutOfBounds", <<Visited[FirstOutOfRange], NumModes>>)

\* C4, its case: indices {1, 1, 2} over two groups with N = 2, all modes
\* referenced, and the duplicate error raised.
C4_Witness ==
    /\ pc = "returned"
    /\ LengthsConsistent
    /\ NumModes = 2
    /\ NumGroups = 2
    /\ BandIndicesOf(1) = <<1>>
    /\ BandIndicesOf(2) = <<1, 2>>
    /\ ret = Raise("MultipleGroups", <<1>>)

\* C5 (SpecGroupCheck): the coverage error is raised exactly when the length
\* checks pass, no index is visited twice, every index is in 1..N and the
\* number of distinct indices differs from N; and then that number is
\* strictly less than N.
C5_CoverageErrorOnlyUnderCoverage ==
    pc = "returned" =>
        /\ (ret.status = "raised" /\ ret.kind = "BandCount") <=>
              (/\ LengthsConsistent
               /\ ~SomeRepeat
               /\ ReferencedIndices \subseteq 1..NumModes
               /\ Cardinality(ReferencedIndices) # NumModes)
        /\ (ret.status = "raised" /\ ret.kind = "BandCount") =>
              Cardinality(ReferencedIndices) < NumModes

\* C5, its case: one mode of two left out.
C5_Witness ==
    /\ pc = "returned"
    /\ NumModes = 2
    /\ ReferencedIndices = {2}
    /\ ret = Raise("BandCount", <<2>>)

\* The values of list at the band indices of group g (1-based), and their sum.
MemberValues(list, g) == [k \in DOMAIN BandIndicesOf(g) |-> list[BandIndicesOf(g)[k]]]

RECURSIVE Total(_)
Total(values) == IF values = <<>> THEN RatZero ELSE RatAdd(values[1], Total(Tail(values)))

\* value is the arithmetic mean of values: value * count = total.
IsMeanOf(value, values) ==
    /\ value # NaN
    /\ RatMul(value, Rat(Len(values), 1)) = Total(values)

C6_OutputOrder ==
    GroupReturned =>
        /\ Len(ret.value[1]) = NumGroups
        /\ Len(ret.value[2]) = NumGroups
        /\ Len(ret.value[3]) = NumGroups
        /\ \A g \in 1..NumGroups : ret.value[3][g] = args.irRepData[g][1]
        /\ \A g \in 1..NumGroups :
              BandIndicesOf(g) # <<>> =>
                  IsMeanOf(ret.value[1][g], MemberValues(args.frequencies, g))
        /\ (ret.value[4] = None) <=> (args.linewidths = None)
        /\ ret.value[4] # None => Len(ret.value[4]) = NumGroups

\* C6, its case: three groups given against the mode order, no linewidths.
C6_Witness ==
    /\ GroupReturned
    /\ args.linewidths = None
    /\ NumGroups = 3
    /\ BandIndicesOf(1) = <<3>>
    /\ BandIndicesOf(2) = <<1>>
    /\ BandIndicesOf(3) = <<2>>
    /\ ret.value[3] = <<"A", "B", "E">>
    /\ ret.value[1] = <<args.frequencies[3], args.frequencies[1], args.frequencies[2]>>
    /\ ret.value[4] = None

ModesDifferInAtomCount ==
    \E i, k \in DOMAIN args.eigenvectors :
        Len(args.eigenvectors[i]) # Len(args.eigenvectors[k])

SomeDisplacementNot3 ==
    \E i \in DOMAIN args.eigenvectors :
        \E j \in DOMAIN args.eigenvectors[i] : Len(args.eigenvectors[i][j]) # 3

\* C9: no input whose mode vectors differ in atom count, or that holds a
\* displacement that is not 3-component, yields a result: the call raises.
C9_MalformedNeverYieldsResult ==
    (pc = "returned" /\ (ModesDifferInAtomCount \/ SomeDisplacementNot3)) =>
        ret.status = "raised"

====
